---- MODULE Spec2Model ----
(***************************************************************************)
(* A model of radioflux.py: flatten, radiomap.__init__, applyregion,       *)
(* printflux and the command-line loop.                                    *)
(*                                                                         *)
(* Numbers.  Python floats are modelled by exact rationals <<n, d>> in     *)
(* lowest terms with d > 0; NaN (the mean of an empty array) is <<0, 0>>   *)
(* and absorbs every operation.  A square root is kept exact as a surd     *)
(* [radicand |-> q].  Header numbers are integers (angles in thousandths   *)
(* of a degree).                                                           *)
(***************************************************************************)
EXTENDS Integers, Sequences, FiniteSets, TLC

VARIABLES
    inp,        \* the argument of the function under study (function-level specifications)
    ret,        \* what that function returned or raised
    pc,         \* position of the running code
    args,       \* the parsed command line: files, fgr, bgr, indiv, bgsub
    fi,         \* index in args.files of the file being processed
    rm,         \* the radiomap of the current file
    noise,      \* main's noise
    background, \* main's background
    fg_ir,      \* the foreground region list of the current file
    n,          \* number of sub-regions already printed (individual mode)
    out,        \* the lines printed so far
    exc         \* the exception that ended the run, or "none"

vars == <<inp, ret, pc, args, fi, rm, noise, background, fg_ir, n, out, exc>>

----------------------------------------------------------------------------
(* Rational arithmetic *)

Abs(x) == IF x < 0 THEN -x ELSE x

RECURSIVE GCD(_, _)
GCD(a, b) == IF b = 0 THEN a ELSE GCD(b, a % b)

NaN == <<0, 0>>

IsNaN(q) == q[2] = 0

Norm(num, den) ==
    IF den = 0 THEN NaN
    ELSE LET g == GCD(Abs(num), Abs(den))
             s == IF den < 0 THEN -1 ELSE 1
         IN  <<(s * num) \div g, (s * den) \div g>>

R(i) == <<i, 1>>

RAdd(p, q) == IF IsNaN(p) \/ IsNaN(q) THEN NaN
              ELSE Norm(p[1] * q[2] + q[1] * p[2], p[2] * q[2])

RSub(p, q) == IF IsNaN(p) \/ IsNaN(q) THEN NaN
              ELSE Norm(p[1] * q[2] - q[1] * p[2], p[2] * q[2])

RMul(p, q) == IF IsNaN(p) \/ IsNaN(q) THEN NaN
              ELSE Norm(p[1] * q[1], p[2] * q[2])

\* x / y of two floats; numpy gives nan for 0/0 (no other zero divisor is reachable)
RDiv(p, q) == IF IsNaN(p) \/ IsNaN(q) THEN NaN
              ELSE Norm(p[1] * q[2], p[2] * q[1])

\* p > q; any comparison with nan is false
RGt(p, q) == ~IsNaN(p) /\ ~IsNaN(q) /\ p[1] * q[2] > q[1] * p[2]

\* np.sqrt, exact: the value whose square is q
sqrt(q) == [radicand |-> q]

\* the product of two surds
SurdTimes(a, b) == [radicand |-> RMul(a.radicand, b.radicand)]

\* Python truth value of a float: false for 0 only (nan is true)
Truthy(a) == a.radicand # R(0)

----------------------------------------------------------------------------
(* Headers: a header is a function from the keys present to their values *)

None == -1000000

\* Header.get(k): the value, or None when the key is absent
Get(h, k) == IF k \in DOMAIN h THEN h[k] ELSE None

\* 'CTYPE'+str(i) and 'CRVAL'+str(i)
CTYPE(i) == CASE i = 1 -> "CTYPE1" [] i = 2 -> "CTYPE2" [] i = 3 -> "CTYPE3"
              [] i = 4 -> "CTYPE4" [] i = 5 -> "CTYPE5" [] OTHER -> "CTYPE9"

CRVAL(i) == CASE i = 1 -> "CRVAL1" [] i = 2 -> "CRVAL2" [] i = 3 -> "CRVAL3"
              [] i = 4 -> "CRVAL4" [] i = 5 -> "CRVAL5" [] OTHER -> "CRVAL9"

\* wcs.WCS(header).wcs.cdelt: CDELT<i>, 1.0 when the header has none
cdelt(h) == <<IF "CDELT1" \in DOMAIN h THEN h["CDELT1"] ELSE 1,
              IF "CDELT2" \in DOMAIN h THEN h["CDELT2"] ELSE 1>>

----------------------------------------------------------------------------
(* flatten *)

\* the longest axis of a shape
RECURSIVE MaxOf(_)
MaxOf(sh) == IF sh = <<>> THEN 0
             ELSE LET m == MaxOf(Tail(sh)) IN IF Head(sh) > m THEN Head(sh) ELSE m

\* the index tuples of an array of the given shape (numpy order, 0-based:
\* the last two entries are the second and first FITS axes)
Indices(sh) ==
    {idx \in [1..Len(sh) -> 0..(MaxOf(sh) - 1)] : \A i \in 1..Len(sh) : idx[i] < sh[i]}

\* np.shape(a) of an array a = [shape |-> ..., at |-> [Indices(shape) -> value]]
shape(a) == a.shape

\* a slip: the plane is cut along the first two numpy axes, data[:, :, 0, ...]
SliceLeading(data, naxis) ==
    LET sh == <<data.shape[1], data.shape[2]>>
        zeros == [i \in 1..(naxis - 2) |-> 0]
    IN  [shape |-> sh,
         at |-> [ij \in Indices(sh) |-> data.at[ij \o zeros]]]

\* slice=(0,)*(naxis-2)+(np.s_[:],)*2 ; data[slice]
Slice(data, naxis) ==
    LET sh == <<data.shape[naxis - 1], data.shape[naxis]>>
        zeros == [i \in 1..(naxis - 2) |-> 0]
    IN  [shape |-> sh,
         at |-> [ij \in Indices(sh) |-> data.at[zeros \o ij]]]

\* the header wn.to_header() of the 2-axis WCS built from the first two axes,
\* with NAXIS = 2 and EQUINOX/EPOCH copied when present and true
FlatHeader(h) ==
    LET base == [k \in ({"CRPIX1", "CRPIX2", "CDELT1", "CDELT2", "CRVAL1", "CRVAL2",
                         "CTYPE1", "CTYPE2"} \cap DOMAIN h) \cup {"NAXIS"} |->
                    IF k = "NAXIS" THEN 2 ELSE h[k]]
        copy == {k \in {"EQUINOX", "EPOCH"} : k \in DOMAIN h /\ h[k] # 0}
    IN  [k \in DOMAIN base \cup copy |-> IF k \in copy THEN h[k] ELSE base[k]]

\* flatten(f): the header and data returned, or the exception raised; the
\* data of a FITS image has NAXIS axes
flatten(f) ==
    LET naxis == f.header["NAXIS"]
    IN  IF naxis < 2 THEN [exc |-> "RadioError: Can't make map from this"]
        ELSE IF naxis = 2 THEN [exc |-> "none", header |-> f.header, data |-> f.data]
        ELSE [exc |-> "none", header |-> FlatHeader(f.header),
              data |-> Slice(f.data, naxis)]

----------------------------------------------------------------------------
(* radiomap.__init__ *)

\* float(token): the number a numeral denotes (thousandths); ValueError otherwise
IsNumeral(tok) == tok \in {"0.002", "0.003", "0.005", "0.007"}

float(tok) == CASE tok = "0.002" -> 2 [] tok = "0.003" -> 3
                [] tok = "0.005" -> 5 [] OTHER -> 7

\* 'CLEAN BMAJ' in line, for a line given as line.split(): the text holds the
\* marker when a token ending in CLEAN is followed by one starting with BMAJ
HasMarker(bits) ==
    \E i \in 1..(Len(bits) - 1) : bits[i] = "CLEAN" /\ bits[i + 1] \in {"BMAJ", "BMAJ="}

\* one pass of the loop body over a history line; b = [bmaj, bmin, exc]
HistoryLine(b, bits) ==
    IF b.exc # "none" \/ ~HasMarker(bits) THEN b
    ELSE IF Len(bits) < 4 THEN [b EXCEPT !.exc = "IndexError"]
    ELSE IF ~IsNumeral(bits[4]) THEN [b EXCEPT !.exc = "ValueError"]
    ELSE IF Len(bits) < 6 THEN [b EXCEPT !.bmaj = float(bits[4]), !.exc = "IndexError"]
    ELSE IF ~IsNumeral(bits[6]) THEN [b EXCEPT !.bmaj = float(bits[4]), !.exc = "ValueError"]
    ELSE [b EXCEPT !.bmaj = float(bits[4]), !.bmin = float(bits[6])]

RECURSIVE HistoryScan(_, _, _)
HistoryScan(b, history, i) ==
    IF i > Len(history) THEN b
    ELSE HistoryScan(HistoryLine(b, history[i]), history, i + 1)

\* a slip: the history is scanned whether or not a beam was found before
ResolveBeamAlwaysHistory(h) ==
    LET b1 == [bmaj |-> Get(h, "BMAJ"), bmin |-> Get(h, "BMIN"), exc |-> "none"]
        b2 == IF b1.bmaj = None
              THEN [b1 EXCEPT !.bmaj = Get(h, "RESOL1"), !.bmin = Get(h, "RESOL2")]
              ELSE b1
        b3 == IF "HISTORY" \in DOMAIN h
              THEN HistoryScan(b2, h["HISTORY"], 1)
              ELSE b2
    IN  IF b3.exc = "none" /\ b3.bmaj = None
        THEN [b3 EXCEPT !.exc = "RadioError: No beam information found"]
        ELSE b3

\* lines 59-79: the beam axes as found in the header, or the exception raised
ResolveBeam(h) ==
    LET b1 == [bmaj |-> Get(h, "BMAJ"), bmin |-> Get(h, "BMIN"), exc |-> "none"]
        b2 == IF b1.bmaj = None
              THEN [b1 EXCEPT !.bmaj = Get(h, "RESOL1"), !.bmin = Get(h, "RESOL2")]
              ELSE b1
        b3 == IF b2.bmaj = None /\ "HISTORY" \in DOMAIN h
              THEN HistoryScan(b2, h["HISTORY"], 1)
              ELSE b2
    IN  IF b3.exc = "none" /\ b3.bmaj = None
        THEN [b3 EXCEPT !.exc = "RadioError: No beam information found"]
        ELSE b3

\* lines 88-97: the CTYPE<i> scan from index i
RECURSIVE ScanCtype(_, _)
ScanCtype(h, i) ==
    IF CTYPE(i) \notin DOMAIN h THEN None
    ELSE IF h[CTYPE(i)] = "FREQ" THEN Get(h, CRVAL(i))
    ELSE ScanCtype(h, i + 1)

\* a slip: RESTFREQ is read before RESTFRQ
ResolveFrqSwapped(h) ==
    LET f1 == Get(h, "RESTFREQ")
        f2 == IF f1 = None THEN Get(h, "RESTFRQ") ELSE f1
        f3 == IF f2 = None THEN Get(h, "FREQ") ELSE f2
        f4 == IF f3 = None THEN ScanCtype(h, 1) ELSE f3
    IN  IF f4 = None THEN [frq |-> 0, warned |-> TRUE]
        ELSE [frq |-> f4, warned |-> FALSE]

\* lines 82-101: the frequency and whether the warning was printed
ResolveFrq(h) ==
    LET f1 == Get(h, "RESTFRQ")
        f2 == IF f1 = None THEN Get(h, "RESTFREQ") ELSE f1
        f3 == IF f2 = None THEN Get(h, "FREQ") ELSE f2
        f4 == IF f3 = None THEN ScanCtype(h, 1) ELSE f3
    IN  IF f4 = None THEN [frq |-> 0, warned |-> TRUE]
        ELSE [frq |-> f4, warned |-> FALSE]

\* lines 54-58: BUNIT, else UNIT
ResolveUnits(h) ==
    IF "BUNIT" \in DOMAIN h THEN h["BUNIT"]
    ELSE IF "UNIT" \in DOMAIN h THEN h["UNIT"] ELSE "None"

\* line 106, first operand: ((cd1-cd2)/cd1) > 1.0001
PixelTest(cd1, cd2) == RGt(RDiv(R(cd1 - cd2), R(cd1)), <<10001, 10000>>)

\* lines 103-107: the second operand reads the names bmaj and bmin, which are
\* bound nowhere (the attributes are self.bmaj, self.bmin): evaluating it raises
\* NameError, so the RadioError of line 107 is never raised
GeometryCheck(cd1, cd2) == IF PixelTest(cd1, cd2) THEN "NameError" ELSE "none"

\* lines 50, 114: 2.0*np.pi and gfactor*gfactor = 8 ln 2, to three decimals
TwoPi == <<6283, 1000>>

gfactor2 == <<5545, 1000>>

\* lines 109-116: the beam in pixels and its area; None/float raises TypeError
BeamArea(b, cd1, cd2) ==
    IF b.bmin = None THEN [exc |-> "TypeError"]
    ELSE LET bmaj == RDiv(R(b.bmaj), R(cd1))
             bmin == RDiv(R(b.bmin), R(cd2))
         IN  [exc |-> "none", bmaj |-> bmaj, bmin |-> bmin,
              area |-> RDiv(RMul(TwoPi, RMul(bmaj, bmin)), gfactor2)]

\* radiomap.__init__(fitsfile): the object built, or [exc |-> the exception raised]
radiomap(f) ==
    LET h == f.header
        b == ResolveBeam(h)
        fr == ResolveFrq(h)
        cd1 == -cdelt(h)[1]
        cd2 == cdelt(h)[2]
        g == GeometryCheck(cd1, cd2)
        a == BeamArea(b, cd1, cd2)
        fl == flatten(f)
    IN  IF b.exc # "none" THEN [exc |-> b.exc]
        ELSE IF g # "none" THEN [exc |-> g]
        ELSE IF a.exc # "none" THEN [exc |-> a.exc]
        ELSE IF fl.exc # "none" THEN [exc |-> fl.exc]
        ELSE [exc |-> "none", f |-> f, prhd |-> h, units |-> ResolveUnits(h),
              unitwarn |-> ResolveUnits(h) # "JY/BEAM",
              bmaj |-> a.bmaj, bmin |-> a.bmin, frq |-> fr.frq, frqwarn |-> fr.warned,
              area |-> a.area, fhead |-> fl.header, d |-> fl.data]

----------------------------------------------------------------------------
(* applyregion *)

\* region.get_mask(hdu, shape): a region is a list of shapes, each given by the
\* set of pixels it covers; the mask is true where some shape covers the pixel
get_mask(region, sh) ==
    [p \in Indices(sh) |-> \E i \in 1..Len(region) : p \in region[i]]

\* the pixels of a 2D array in raveled (row-major) order
Raveled(sh) == [k \in 1..(sh[1] * sh[2]) |-> <<(k - 1) \div sh[2], (k - 1) % sh[2]>>]

\* np.extract(mask, d): the values where the mask is true, as a new 1D array
extract(mask, d) ==
    LET Inside(p) == mask[p]
        where == SelectSeq(Raveled(d.shape), Inside)
    IN  [k \in 1..Len(where) |-> d.at[where[k]]]

\* a[lo] + ... + a[hi], added pairwise as numpy does
RECURSIVE SumRange(_, _, _)
SumRange(a, lo, hi) ==
    IF lo > hi THEN R(0)
    ELSE IF lo = hi THEN a[lo]
    ELSE LET mid == (lo + hi) \div 2
         IN  RAdd(SumRange(a, lo, mid), SumRange(a, mid + 1, hi))

\* a.sum()
sum(a) == SumRange(a, 1, Len(a))

\* a.mean(): nan for an empty array
mean(a) == RDiv(sum(a), R(Len(a)))

\* a.std(): the root of the mean squared deviation from the mean
std(a) ==
    LET m == mean(a)
        dev2 == [k \in 1..Len(a) |-> RMul(RSub(a[k], m), RSub(a[k], m))]
    IN  sqrt(mean(dev2))

\* np.sum(mask)
CountTrue(mask) == Cardinality({p \in DOMAIN mask : mask[p]})

\* a slip: the sum is multiplied by the beam area
applyregionTimesArea(m, region, extras) ==
    LET bgval == IF "background" \in DOMAIN extras THEN extras["background"] ELSE R(0)
        mask == get_mask(region, shape(m.d))
        pixels == CountTrue(mask)
        raw == extract(mask, m.d)
        data == [k \in 1..Len(raw) |-> RSub(raw[k], bgval)]
        res == [pixels |-> pixels, rms |-> std(data), flux |-> RMul(sum(data), m.area),
                mean |-> mean(data)]
    IN  IF "offsource" \in DOMAIN extras
        THEN res @@ ("error" :> SurdTimes(extras["offsource"], sqrt(RDiv(R(pixels), m.area))))
        ELSE res

\* applyregion.__init__(rm, region, **extras): the attributes of the new object
applyregion(m, region, extras) ==
    LET bgval == IF "background" \in DOMAIN extras THEN extras["background"] ELSE R(0)
        mask == get_mask(region, shape(m.d))
        pixels == CountTrue(mask)
        raw == extract(mask, m.d)
        data == [k \in 1..Len(raw) |-> RSub(raw[k], bgval)]
        res == [pixels |-> pixels, rms |-> std(data), flux |-> RDiv(sum(data), m.area),
                mean |-> mean(data)]
    IN  IF "offsource" \in DOMAIN extras
        THEN res @@ ("error" :> SurdTimes(extras["offsource"], sqrt(RDiv(R(pixels), m.area))))
        ELSE res

\* a slip: extract hands back a view, so data-=bgval writes into rm.d
MapAfterApplyInPlace(m, region, extras) ==
    LET bgval == IF "background" \in DOMAIN extras THEN extras["background"] ELSE R(0)
        mask == get_mask(region, shape(m.d))
    IN  [m EXCEPT !.d.at = [p \in DOMAIN m.d.at |->
                               IF mask[p] THEN RSub(m.d.at[p], bgval) ELSE m.d.at[p]]]

\* the radiomap after applyregion(rm, region, **extras): np.extract returns a
\* copy, data-=bgval changes the copy, and no attribute of rm is assigned
MapAfterApply(m, region, extras) == m

----------------------------------------------------------------------------
(* printflux *)

RECURSIVE Pow10(_)
Pow10(k) == IF k = 0 THEN 1 ELSE 10 * Pow10(k - 1)

RECURSIVE NDigits(_)
NDigits(x) == IF x < 10 THEN 1 ELSE 1 + NDigits(x \div 10)

\* '%g' % x for a whole number x >= 0: the number printed, x rounded to six
\* significant digits (ties to even)
g(x) ==
    IF NDigits(x) <= 6 THEN x
    ELSE LET unit == Pow10(NDigits(x) - 6)
             q == x \div unit
             r == x % unit
             up == 2 * r > unit \/ (2 * r = unit /\ q % 2 = 1)
         IN  (IF up THEN q + 1 ELSE q) * unit

\* a slip: the background is subtracted whether or not bgsub is set
printfluxAlwaysSubtract(filename, m, region, noise_, bgsub, background_, label) ==
    LET fg == applyregion(m, region, ("offsource" :> noise_) @@ ("background" :> background_))
        row == [filename |-> filename, label |-> label, frq |-> g(m.frq), flux |-> fg.flux]
    IN  IF Truthy(noise_) THEN row @@ ("error" :> fg.error) ELSE row

\* printflux(rm, region, noise, bgsub, background, label): the line printed;
\* filename is the global of the loop of main
printflux(filename, m, region, noise_, bgsub, background_, label) ==
    LET fg == IF bgsub # 0
              THEN applyregion(m, region,
                               ("offsource" :> noise_) @@ ("background" :> background_))
              ELSE applyregion(m, region, "offsource" :> noise_)
        row == [filename |-> filename, label |-> label, frq |-> g(m.frq), flux |-> fg.flux]
    IN  IF Truthy(noise_) THEN row @@ ("error" :> fg.error) ELSE row

\* the extras printflux passes to applyregion
printfluxExtras(noise_, bgsub, background_) ==
    IF bgsub # 0 THEN ("offsource" :> noise_) @@ ("background" :> background_)
    ELSE "offsource" :> noise_

----------------------------------------------------------------------------
(* Inputs *)

MaxNaxis == 4
MaxDim == 2

Idle == [exc |-> "idle"]

\* position of an index tuple, counting in base 7: cells of one array differ
RECURSIVE Code(_)
Code(idx) == IF idx = <<>> THEN 0 ELSE Head(idx) + 7 * Code(Tail(idx))

\* an array of the given shape whose cells all hold different values
Cube(sh, seed) == [shape |-> sh, at |-> [idx \in Indices(sh) |-> R(seed + Code(idx))]]

Shapes(naxis) == [1..naxis -> 1..MaxDim]

\* a header of naxis axes; the first two are sky axes, the third (if any) FREQ
AxisHeader(naxis, equinox) ==
    [k \in {"NAXIS", "BMAJ", "BMIN", "CDELT1", "CDELT2", "CTYPE1", "CTYPE2", "CRVAL1", "CRVAL2"}
            \cup (IF naxis > 2 THEN {"CTYPE3", "CRVAL3"} ELSE {})
            \cup (IF equinox # None THEN {"EQUINOX"} ELSE {}) |->
        CASE k = "NAXIS" -> naxis
          [] k = "BMAJ" -> 8 [] k = "BMIN" -> 4
          [] k = "CDELT1" -> -2 [] k = "CDELT2" -> 2
          [] k = "CTYPE1" -> "RA---SIN" [] k = "CTYPE2" -> "DEC--SIN"
          [] k = "CTYPE3" -> "FREQ"
          [] k = "CRVAL1" -> 10 [] k = "CRVAL2" -> 20 [] k = "CRVAL3" -> 1400
          [] OTHER -> equinox]

FlattenInputs ==
    UNION {{[header |-> AxisHeader(naxis, eq), data |-> Cube(sh, seed)] :
                 sh \in Shapes(naxis), seed \in {1, 50}, eq \in {None, 0, 2000}} :
           naxis \in 0..MaxNaxis}

----------------------------------------------------------------------------
(* flatten on its own *)

InitFlatten ==
    /\ inp \in FlattenInputs
    /\ pc = "call" /\ ret = Idle
    /\ args = Idle /\ fi = 0 /\ rm = Idle /\ noise = sqrt(R(0)) /\ background = R(0)
    /\ fg_ir = <<>> /\ n = 0 /\ out = <<>> /\ exc = "none"

CallFlatten ==
    /\ pc = "call"
    /\ ret' = flatten(inp)
    /\ pc' = "done"
    /\ UNCHANGED <<inp, args, fi, rm, noise, background, fg_ir, n, out, exc>>

NextFlatten == CallFlatten

SpecFlatten == InitFlatten /\ [][NextFlatten]_vars

\* C5: flatten raises RadioError for NAXIS < 2, returns header and data
\* unchanged for NAXIS = 2, and for NAXIS > 2 returns a header with NAXIS = 2
\* and the plane at index 0 of every axis beyond the first two
FlattenByNaxis ==
    pc = "done" =>
        LET naxis == inp.header["NAXIS"]
            sh == inp.data.shape
        IN  /\ naxis < 2 => ret.exc = "RadioError: Can't make map from this"
            /\ naxis = 2 => ret.exc = "none" /\ ret.header = inp.header
                                             /\ ret.data = inp.data
            /\ naxis > 2 =>
                 /\ ret.exc = "none"
                 /\ ret.header["NAXIS"] = 2
                 /\ ret.data.shape = <<sh[naxis - 1], sh[naxis]>>
                 /\ DOMAIN ret.data.at = Indices(<<sh[naxis - 1], sh[naxis]>>)
                 /\ \A idx \in DOMAIN inp.data.at :
                        (\A i \in 1..(naxis - 2) : idx[i] = 0)
                            => ret.data.at[<<idx[naxis - 1], idx[naxis]>>] = inp.data.at[idx]

FlattenCubeDone ==
    /\ pc = "done" /\ inp.header["NAXIS"] > 2 /\ ret.exc = "none"
    /\ inp.data.shape[1] > 1 /\ Cardinality(DOMAIN ret.data.at) > 1

----------------------------------------------------------------------------
(* radiomap.__init__ on its own *)

MaxHistory == 2

NoKeys == [k \in {} |-> 0]

\* the headers holding key k with a value of S, or not holding it
Opt(k, S) == {NoKeys} \cup {k :> v : v \in S}

HistoryLines ==
    { <<"AIPS", "CLEAN", "BMAJ=", "0.005", "BMIN=", "0.003">>,
      <<"AIPS", "CLEAN", "BMAJ=", "0.007", "BMIN=", "0.002", "BPA=", "0.00">>,
      <<"AIPS", "CLEAN", "NITER=", "100">>,
      <<"CLEAN", "BMAJ=", "0.005", "BMIN=", "0.003">>,
      <<"AIPS", "CLEAN", "BMAJ=", "0.005">> }

Histories == UNION {[1..len -> HistoryLines] : len \in 0..MaxHistory}

BeamHeaders ==
    {("NAXIS" :> 2) @@ bmaj @@ bmin @@ r1 @@ r2 @@ hist @@ c1 @@ c2 :
        bmaj \in Opt("BMAJ", {1, 8}), bmin \in Opt("BMIN", {2, 8}),
        r1 \in Opt("RESOL1", {6}), r2 \in Opt("RESOL2", {3}),
        hist \in Opt("HISTORY", Histories),
        c1 \in Opt("CDELT1", {-1, 1}), c2 \in Opt("CDELT2", {2})}

Plane == Cube(<<2, 2>>, 1)

InitBeam ==
    /\ inp \in {[header |-> h, data |-> Plane] : h \in BeamHeaders}
    /\ pc = "call" /\ ret = Idle
    /\ args = Idle /\ fi = 0 /\ rm = Idle /\ noise = sqrt(R(0)) /\ background = R(0)
    /\ fg_ir = <<>> /\ n = 0 /\ out = <<>> /\ exc = "none"

CallRadiomap ==
    /\ pc = "call"
    /\ ret' = radiomap(inp)
    /\ pc' = "done"
    /\ UNCHANGED <<inp, args, fi, rm, noise, background, fg_ir, n, out, exc>>

NextRadiomap == CallRadiomap

SpecBeam == InitBeam /\ [][NextRadiomap]_vars

\* the pixel scales and header of the map under construction
Hdr == inp.header

cd1 == -cdelt(Hdr)[1]

cd2 == cdelt(Hdr)[2]

Has(keys) == keys \subseteq DOMAIN Hdr

Lacks(keys) == keys \cap DOMAIN Hdr = {}

MarkerLines == IF Has({"HISTORY"})
               THEN {i \in 1..Len(Hdr["HISTORY"]) : HasMarker(Hdr["HISTORY"][i])}
               ELSE {}

\* the beam of the finished map is (a, b) in header units
BeamIs(a, b) == ret.bmaj = RDiv(R(a), R(cd1)) /\ ret.bmin = RDiv(R(b), R(cd2))

\* C2: the beam comes from BMAJ/BMIN when present, whatever RESOL1/RESOL2 and
\* HISTORY hold; from RESOL1/RESOL2 only when BMAJ/BMIN are absent; from the
\* 4th and 6th tokens of a 'CLEAN BMAJ' history line only when all four keys
\* are absent; a rule that is not reached is not consulted (it cannot raise)
BeamRuleOrder ==
    pc = "done" =>
        /\ Has({"BMAJ", "BMIN"}) =>
              /\ ret.exc \in {"none", "NameError"}
              /\ ret.exc = "none" => BeamIs(Hdr["BMAJ"], Hdr["BMIN"])
        /\ Lacks({"BMAJ", "BMIN"}) /\ Has({"RESOL1", "RESOL2"}) =>
              /\ ret.exc \in {"none", "NameError"}
              /\ ret.exc = "none" => BeamIs(Hdr["RESOL1"], Hdr["RESOL2"])
        /\ Lacks({"BMAJ", "BMIN", "RESOL1", "RESOL2"}) /\ ret.exc = "none" =>
              \E i \in MarkerLines :
                  /\ \A j \in MarkerLines : j <= i
                  /\ BeamIs(float(Hdr["HISTORY"][i][4]), float(Hdr["HISTORY"][i][6]))

DirectBeamPreferred ==
    /\ pc = "done" /\ ret.exc = "none"
    /\ Has({"BMAJ", "BMIN", "RESOL1", "RESOL2", "HISTORY"})
    /\ MarkerLines # {}
    /\ Hdr["BMAJ"] # Hdr["RESOL1"]
    /\ BeamIs(Hdr["BMAJ"], Hdr["BMIN"])

\* |a - b| / |a| > 0.0001
RelDiffExceeds(a, b) == 10000 * Abs(a - b) > Abs(a)

\* C3: construction fails with RadioError exactly when the pixel scales differ
\* by more than 0.0001 (relative) and the beam axes do too
NonSquareEllipticalRejected ==
    pc = "done" /\ Has({"BMAJ", "BMIN"}) =>
        (ret.exc = "RadioError: Pixels are not square and beam is elliptical"
            <=> RelDiffExceeds(cd1, cd2) /\ RelDiffExceeds(Hdr["BMAJ"], Hdr["BMIN"]))

\* cd1 = 1, cd2 = 2, bmaj = 1, bmin = 2 is constructed without error
NonSquareEllipticalAccepted ==
    /\ pc = "done" /\ ret.exc = "none"
    /\ cd1 = 1 /\ cd2 = 2 /\ Has({"BMAJ", "BMIN"}) /\ Hdr["BMAJ"] = 1 /\ Hdr["BMIN"] = 2

\* C4: when the rules leave bmaj or bmin without a value (one key of a pair is
\* missing, or no rule yields anything) construction raises
\* RadioError('No beam information found')
UnresolvedBeamRaises ==
    pc = "done" =>
        ((\/ Has({"BMAJ"}) /\ Lacks({"BMIN"})
          \/ Lacks({"BMAJ"}) /\ Has({"RESOL1"}) /\ Lacks({"RESOL2"})
          \/ Lacks({"BMAJ", "RESOL1"}) /\ MarkerLines = {})
            => ret.exc = "RadioError: No beam information found")

\* BMAJ without BMIN: construction stops on a TypeError
HalfBeamTypeError ==
    /\ pc = "done" /\ Has({"BMAJ"}) /\ Lacks({"BMIN"}) /\ ret.exc = "TypeError"

----------------------------------------------------------------------------
(* the frequency *)

CtypeConfigs ==
    { NoKeys,
      ("CTYPE1" :> "RA---SIN") @@ ("CTYPE2" :> "DEC--SIN"),
      ("CTYPE1" :> "RA---SIN") @@ ("CTYPE2" :> "DEC--SIN") @@ ("CTYPE3" :> "FREQ")
          @@ ("CRVAL3" :> 1700),
      ("CTYPE1" :> "RA---SIN") @@ ("CTYPE2" :> "DEC--SIN") @@ ("CTYPE3" :> "FREQ"),
      ("CTYPE1" :> "RA---SIN") @@ ("CTYPE2" :> "DEC--SIN") @@ ("CTYPE3" :> "STOKES")
          @@ ("CTYPE4" :> "FREQ") @@ ("CRVAL3" :> 1) @@ ("CRVAL4" :> 1800),
      ("CTYPE1" :> "RA---SIN") @@ ("CTYPE2" :> "DEC--SIN") @@ ("CTYPE4" :> "FREQ")
          @@ ("CRVAL4" :> 1800),
      ("CTYPE1" :> "FREQ") @@ ("CRVAL1" :> 1900) @@ ("CTYPE2" :> "DEC--SIN")
          @@ ("CTYPE3" :> "FREQ") @@ ("CRVAL3" :> 1700) }

FrqHeaders ==
    {("NAXIS" :> 2) @@ ("BMAJ" :> 8) @@ ("BMIN" :> 4) @@ ("CDELT1" :> -2) @@ ("CDELT2" :> 2)
        @@ f1 @@ f2 @@ f3 @@ ct @@ bu @@ u :
        f1 \in Opt("RESTFRQ", {0, 1400}), f2 \in Opt("RESTFREQ", {1500}),
        f3 \in Opt("FREQ", {1600}), ct \in CtypeConfigs,
        bu \in Opt("BUNIT", {"JY/BEAM", "K"}), u \in Opt("UNIT", {"JY/BEAM"})}

InitFrq ==
    /\ inp \in {[header |-> h, data |-> Plane] : h \in FrqHeaders}
    /\ pc = "call" /\ ret = Idle
    /\ args = Idle /\ fi = 0 /\ rm = Idle /\ noise = sqrt(R(0)) /\ background = R(0)
    /\ fg_ir = <<>> /\ n = 0 /\ out = <<>> /\ exc = "none"

SpecFrq == InitFrq /\ [][NextRadiomap]_vars

\* the axes whose CTYPE is FREQ and which the scan reaches: every CTYPE before
\* them is present and is not FREQ
FreqAxes == {i \in 1..6 : /\ \A j \in 1..i : CTYPE(j) \in DOMAIN Hdr
                          /\ \A j \in 1..(i - 1) : Hdr[CTYPE(j)] # "FREQ"
                          /\ Hdr[CTYPE(i)] = "FREQ"}

\* C6: the frequency is RESTFRQ, else RESTFREQ, else FREQ, else CRVAL<i> of the
\* first FREQ axis the CTYPE scan reaches, else 0 with a warning; construction
\* succeeds in every case
FrqRuleOrder ==
    pc = "done" =>
        /\ ret.exc = "none"
        /\ ret.frq = (IF Has({"RESTFRQ"}) THEN Hdr["RESTFRQ"]
                      ELSE IF Has({"RESTFREQ"}) THEN Hdr["RESTFREQ"]
                      ELSE IF Has({"FREQ"}) THEN Hdr["FREQ"]
                      ELSE IF \E i \in FreqAxes : CRVAL(i) \in DOMAIN Hdr
                           THEN Hdr[CRVAL(CHOOSE i \in FreqAxes : TRUE)]
                      ELSE 0)
        /\ ret.frqwarn <=> /\ Lacks({"RESTFRQ", "RESTFREQ", "FREQ"})
                           /\ \A i \in FreqAxes : CRVAL(i) \notin DOMAIN Hdr

\* the frequency was read from the axis found by the scan, past a non-FREQ axis
FrqFromScan ==
    /\ pc = "done" /\ ret.exc = "none"
    /\ Lacks({"RESTFRQ", "RESTFREQ", "FREQ"})
    /\ 4 \in FreqAxes /\ ret.frq = Hdr["CRVAL4"]

----------------------------------------------------------------------------
(* applyregion on its own *)

MaxRegions == 2

\* shapes on a 2 x 2 plane: one pixel, a row, an L, and one off the image
SmallShapes == { {<<0, 0>>}, {<<0, 0>>, <<0, 1>>}, {<<0, 1>>, <<1, 0>>, <<1, 1>>}, {} }

SmallRegions == UNION {[1..len -> SmallShapes] : len \in 1..MaxRegions}

\* a 10 x 11 image: ones in the first ten columns, fives in the last
OnesPlane == [shape |-> <<10, 11>>,
              at |-> [p \in Indices(<<10, 11>>) |-> IF p[2] < 10 THEN R(1) ELSE R(5)]]

\* the rectangle of the 100 pixels holding ones
Rect100 == {p \in Indices(<<10, 11>>) : p[2] < 10}

\* a map as applyregion reads it: the plane and the beam area
MapOf(d, area) == [exc |-> "none", d |-> d, area |-> area]

RegionInputs ==
    {[rm |-> MapOf(d, a), region |-> reg, extras |-> bg @@ off] :
        d \in {Cube(<<2, 2>>, 1), Cube(<<2, 2>>, -4)}, a \in {R(4), R(10), <<5, 2>>},
        reg \in SmallRegions,
        bg \in Opt("background", {R(0), R(2), <<-1, 2>>}),
        off \in Opt("offsource", {sqrt(R(0)), sqrt(R(4))})}
    \cup
    {[rm |-> MapOf(OnesPlane, a), region |-> <<Rect100>>, extras |-> bg @@ off] :
        a \in {R(10), R(20)},
        bg \in Opt("background", {R(0), R(1)}),
        off \in Opt("offsource", {sqrt(R(4))})}

InitRegion ==
    /\ inp \in RegionInputs
    /\ pc = "call" /\ ret = Idle
    /\ args = Idle /\ fi = 0 /\ rm = Idle /\ noise = sqrt(R(0)) /\ background = R(0)
    /\ fg_ir = <<>> /\ n = 0 /\ out = <<>> /\ exc = "none"

CallApplyregion ==
    /\ pc = "call"
    /\ ret' = applyregion(inp.rm, inp.region, inp.extras)
    /\ rm' = MapAfterApply(inp.rm, inp.region, inp.extras)
    /\ pc' = "done"
    /\ UNCHANGED <<inp, args, fi, noise, background, fg_ir, n, out, exc>>

NextRegion == CallApplyregion

SpecRegion == InitRegion /\ [][NextRegion]_vars

\* the sum of d over a set S of its pixels
SumOver(S, d) ==
    LET pix == Raveled(d.shape)
        term == [k \in 1..Len(pix) |-> IF pix[k] \in S THEN d.at[pix[k]] ELSE R(0)]
    IN  SumRange(term, 1, Len(pix))

\* the pixels of the plane that some shape of the region covers
Covered(region, d) == {p \in DOMAIN d.at : \E i \in 1..Len(region) : p \in region[i]}

\* (sum over the covered pixels of (value - bgval)) / area
FluxOf(region, m, bgval) ==
    RDiv(RSub(SumOver(Covered(region, m.d), m.d),
              RMul(bgval, R(Cardinality(Covered(region, m.d))))), m.area)

GivenBackground == IF "background" \in DOMAIN inp.extras THEN inp.extras["background"]
                   ELSE R(0)

\* C1: flux = (sum over the masked pixels of (value - background)) / beam area,
\* the background being 0 when none is given; with the beam area doubled the
\* flux is halved; 100 pixels of value 1, beam area 10, background 0 give
\* flux 10, mean 1, rms 0
FluxIsSumOverArea ==
    pc = "done" =>
        /\ ret.flux = FluxOf(inp.region, inp.rm, GivenBackground)
        /\ RMul(R(2), applyregion([inp.rm EXCEPT !.area = RMul(R(2), inp.rm.area)],
                                  inp.region, inp.extras).flux) = ret.flux
        /\ (inp.rm.d = OnesPlane /\ inp.rm.area = R(10) /\ GivenBackground = R(0)) =>
               ret.pixels = 100 /\ ret.flux = R(10) /\ ret.mean = R(1) /\ ret.rms = sqrt(R(0))

OnesMeasured ==
    /\ pc = "done" /\ inp.rm.d = OnesPlane /\ inp.rm.area = R(10)
    /\ "background" \notin DOMAIN inp.extras
    /\ ret.pixels = 100 /\ ret.flux = R(10)

----------------------------------------------------------------------------
(* the command line: main *)

MaxFiles == 2

\* the FITS files on disk
Disk ==
    [name \in {"a.fits", "b.fits", "c.fits"} |->
        CASE name = "a.fits" ->
                 [header |-> AxisHeader(3, 2000), data |-> Cube(<<2, 2, 2>>, 1)]
          [] name = "b.fits" ->
                 [header |-> AxisHeader(2, None) @@ ("RESTFRQ" :> 1234567),
                  data |-> [shape |-> <<2, 2>>, at |-> [p \in Indices(<<2, 2>>) |-> R(3)]]]
          [] OTHER ->
                 [header |-> ("NAXIS" :> 2) @@ ("CDELT1" :> -2) @@ ("CDELT2" :> 2),
                  data |-> Cube(<<2, 2>>, 1)]]

\* the shapes region files hold, as the pixels they cover on the image
FgShapes == { {<<0, 0>>}, {<<0, 0>>, <<0, 1>>} }

\* args.bgr: the shapes of the background region file; <<>> is the default ''
BgFiles == { <<>>, << {<<1, 1>>} >>, << {<<1, 0>>, <<1, 1>>} >>, << {} >> }

ArgSets ==
    [files : UNION {[1..len -> DOMAIN Disk] : len \in 1..MaxFiles},
     fgr : UNION {[1..len -> FgShapes] : len \in 1..MaxRegions},
     bgr : BgFiles, indiv : {0, 1}, bgsub : {0, 1}]

Init ==
    /\ args \in ArgSets
    /\ fi = 0 /\ pc = "for" /\ rm = Idle
    /\ noise = sqrt(R(0)) /\ background = R(0)
    /\ fg_ir = <<>> /\ n = 0 /\ out = <<>> /\ exc = "none"
    /\ inp = Idle /\ ret = Idle

\* lines 165-167: the next file is opened and its radiomap built
OpenFile ==
    /\ pc = "for" /\ fi < Len(args.files)
    /\ fi' = fi + 1
    /\ LET m == radiomap(Disk[args.files[fi + 1]])
       IN  IF m.exc # "none"
           THEN pc' = "raised" /\ exc' = m.exc /\ rm' = rm
           ELSE pc' = "background" /\ exc' = exc /\ rm' = m
    /\ UNCHANGED <<inp, ret, args, noise, background, fg_ir, n, out>>

\* a slip: the background region is measured on the first file's map
BackgroundOfFirstFile ==
    /\ pc = "background"
    /\ IF args.bgr # <<>>
       THEN LET bg == applyregion(radiomap(Disk[args.files[1]]), args.bgr, NoKeys)
            IN  /\ noise' = bg.rms /\ background' = bg.mean
                /\ rm' = rm
                /\ pc' = "foreground" /\ exc' = exc
       ELSE IF args.bgsub # 0
       THEN /\ pc' = "raised"
            /\ exc' = "RadioError: Background subtraction requested but no bg region"
            /\ UNCHANGED <<rm, noise, background>>
       ELSE /\ noise' = sqrt(R(0)) /\ background' = R(0)
            /\ pc' = "foreground" /\ UNCHANGED <<rm, exc>>
    /\ UNCHANGED <<inp, ret, args, fi, fg_ir, n, out>>

\* lines 168-177: noise and background of this file
Background ==
    /\ pc = "background"
    /\ IF args.bgr # <<>>
       THEN LET bg == applyregion(rm, args.bgr, NoKeys)
            IN  /\ noise' = bg.rms /\ background' = bg.mean
                /\ rm' = MapAfterApply(rm, args.bgr, NoKeys)
                /\ pc' = "foreground" /\ exc' = exc
       ELSE IF args.bgsub # 0
       THEN /\ pc' = "raised"
            /\ exc' = "RadioError: Background subtraction requested but no bg region"
            /\ UNCHANGED <<rm, noise, background>>
       ELSE /\ noise' = sqrt(R(0)) /\ background' = R(0)
            /\ pc' = "foreground" /\ UNCHANGED <<rm, exc>>
    /\ UNCHANGED <<inp, ret, args, fi, fg_ir, n, out>>

\* lines 179-182, 185: the foreground regions are read and the mode chosen
Foreground ==
    /\ pc = "foreground"
    /\ fg_ir' = args.fgr
    /\ n' = 0
    /\ pc' = IF args.indiv # 0
             THEN (IF Len(args.fgr) = 0 THEN "close" ELSE "individual")
             ELSE "composite"
    /\ UNCHANGED <<inp, ret, args, fi, rm, noise, background, out, exc>>

\* lines 182-184: one pass of the loop over the sub-regions
PrintIndividual ==
    /\ pc = "individual" /\ n < Len(fg_ir)
    /\ out' = Append(out, [file |-> fi,
                           line |-> printflux(args.files[fi], rm, <<fg_ir[n + 1]>>, noise,
                                              args.bgsub, background, n + 1)])
    /\ rm' = MapAfterApply(rm, <<fg_ir[n + 1]>>,
                           printfluxExtras(noise, args.bgsub, background))
    /\ n' = n + 1
    /\ pc' = IF n + 1 = Len(fg_ir) THEN "close" ELSE "individual"
    /\ UNCHANGED <<inp, ret, args, fi, noise, background, fg_ir, exc>>

\* line 186: the whole region list at once
PrintComposite ==
    /\ pc = "composite"
    /\ out' = Append(out, [file |-> fi,
                           line |-> printflux(args.files[fi], rm, fg_ir, noise,
                                              args.bgsub, background, "")])
    /\ rm' = MapAfterApply(rm, fg_ir, printfluxExtras(noise, args.bgsub, background))
    /\ pc' = "close"
    /\ UNCHANGED <<inp, ret, args, fi, noise, background, fg_ir, n, exc>>

\* line 188: the file is closed and the loop goes on
Close ==
    /\ pc = "close"
    /\ pc' = "for"
    /\ UNCHANGED <<inp, ret, args, fi, rm, noise, background, fg_ir, n, out, exc>>

\* the loop of line 165 has no file left: the program ends
Exit ==
    /\ pc = "for" /\ fi = Len(args.files)
    /\ pc' = "exit"
    /\ UNCHANGED <<inp, ret, args, fi, rm, noise, background, fg_ir, n, out, exc>>

Next ==
    \/ OpenFile
    \/ Background
    \/ Foreground
    \/ PrintIndividual
    \/ PrintComposite
    \/ Close
    \/ Exit

Spec == Init /\ [][Next]_vars

----------------------------------------------------------------------------
(* Properties of main *)

\* what radiomap builds (or raises) for each file on disk
Built == [name \in DOMAIN Disk |-> radiomap(Disk[name])]

\* the map of the current file as radiomap built it
Pristine == Built[args.files[fi]]

\* the lines printed for the file at position i of args.files, in order
LinesAt(i) ==
    LET OfFile(r) == r.file = i
        rows == SelectSeq(out, OfFile)
    IN  [k \in 1..Len(rows) |-> rows[k].line]

\* the level subtracted from the foreground
Subtracted == IF args.bgsub # 0 THEN background ELSE R(0)

\* mean and variance of the pixels of m that the region covers
MeanOf(region, m) ==
    RDiv(SumOver(Covered(region, m.d), m.d), R(Cardinality(Covered(region, m.d))))

VarOf(region, m) ==
    LET sq == [m.d EXCEPT !.at = [p \in DOMAIN m.d.at |-> RMul(m.d.at[p], m.d.at[p])]]
        cnt == R(Cardinality(Covered(region, m.d)))
    IN  RSub(RDiv(SumOver(Covered(region, m.d), sq), cnt),
             RMul(MeanOf(region, m), MeanOf(region, m)))

\* C7: in individual mode the current file has one line per sub-region, in
\* order, labelled 1..n; line i is the flux of sub-region i alone on the map as
\* built, which no applyregion call has changed
IndividualRows ==
    /\ (args.indiv # 0 /\ pc \in {"individual", "close"}) =>
          /\ fg_ir = args.fgr
          /\ Len(LinesAt(fi)) = n
          /\ pc = "close" => n = Len(fg_ir)
          /\ rm = Pristine
          /\ \A i \in 1..n :
                /\ LinesAt(fi)[i].label = i
                /\ LinesAt(fi)[i].filename = args.files[fi]
                /\ LinesAt(fi)[i].flux = FluxOf(<<fg_ir[i]>>, Pristine, Subtracted)
    /\ (args.indiv # 0 /\ pc \in {"for", "exit"}) =>
          \A i \in 1..fi : Len(LinesAt(i)) = Len(args.fgr)

TwoSubRegionsPrinted ==
    /\ args.indiv # 0 /\ pc = "close" /\ n = 2
    /\ args.bgsub # 0 /\ ~IsNaN(background) /\ background # R(0)
    /\ fg_ir[1] # fg_ir[2]
    /\ LinesAt(fi)[1].flux # LinesAt(fi)[2].flux

\* the region a line of the current file measured
RegionOfLine(line) == IF args.indiv # 0 THEN <<fg_ir[line.label]>> ELSE fg_ir

\* C8: a line carries an error exactly when a background region was supplied,
\* and the error is noise * sqrt(pixelCount / beamArea)
ErrorFieldIffBackgroundRegion ==
    \A k \in 1..Len(out) :
        out[k].file = fi =>
            /\ "error" \in DOMAIN out[k].line <=> args.bgr # <<>>
            /\ "error" \in DOMAIN out[k].line =>
                   out[k].line.error =
                       SurdTimes(noise,
                                 sqrt(RDiv(R(Cardinality(Covered(RegionOfLine(out[k].line), rm.d))),
                                           rm.area)))

\* a background region was measured, its rms is 0, and the line has no error
ZeroNoiseLineWithoutError ==
    /\ args.bgr # <<>> /\ noise = sqrt(R(0))
    /\ \E k \in 1..Len(out) : out[k].file = fi /\ "error" \notin DOMAIN out[k].line

\* C9: subtraction without a background region raises RadioError before any
\* line; without a background region and without subtraction noise and
\* background are 0; with a background region they are its rms and mean,
\* measured with nothing subtracted, and the mean is subtracted from the
\* foreground only when subtraction was requested
BackgroundByOptions ==
    /\ (args.bgsub # 0 /\ args.bgr = <<>>) =>
          /\ out = <<>>
          /\ pc \in {"for", "background", "raised"}
          /\ pc = "raised" =>
                exc = (IF Built[args.files[1]].exc # "none"
                       THEN Built[args.files[1]].exc
                       ELSE "RadioError: Background subtraction requested but no bg region")
    /\ pc \in {"foreground", "individual", "composite", "close"} =>
          /\ args.bgr = <<>> => noise = sqrt(R(0)) /\ background = R(0)
          /\ args.bgr # <<>> => /\ background = MeanOf(args.bgr, Pristine)
                                /\ noise = sqrt(VarOf(args.bgr, Pristine))
          /\ \A i \in 1..Len(LinesAt(fi)) :
                LinesAt(fi)[i].flux =
                    FluxOf(RegionOfLine(LinesAt(fi)[i]), Pristine,
                           IF args.bgsub # 0 THEN MeanOf(args.bgr, Pristine) ELSE R(0))

MeasuredButNotSubtracted ==
    /\ pc = "close" /\ args.bgr # <<>> /\ args.bgsub = 0
    /\ ~IsNaN(background) /\ background # R(0)
    /\ LinesAt(fi) # <<>>
    /\ LinesAt(fi)[1].flux = FluxOf(RegionOfLine(LinesAt(fi)[1]), Pristine, R(0))

\* the lines the program prints for a file processed on its own
LinesOf(name) ==
    LET m == Built[name]
        bg == applyregion(m, args.bgr, NoKeys)
        ns == IF args.bgr # <<>> THEN bg.rms ELSE sqrt(R(0))
        bk == IF args.bgr # <<>> THEN bg.mean ELSE R(0)
    IN  IF m.exc # "none" \/ (args.bgr = <<>> /\ args.bgsub # 0) THEN <<>>
        ELSE IF args.indiv # 0
        THEN [i \in 1..Len(args.fgr) |->
                 printflux(name, m, <<args.fgr[i]>>, ns, args.bgsub, bk, i)]
        ELSE <<printflux(name, m, args.fgr, ns, args.bgsub, bk, "")>>

IsPrefix(a, b) == Len(a) <= Len(b) /\ \A k \in 1..Len(a) : a[k] = b[k]

\* C10 as stated: when the program has ended, every file of the list has the
\* lines it would have on its own, whatever the other files are
LinesDependOnOwnFileOnly ==
    pc \in {"exit", "raised"} =>
        \A i \in 1..Len(args.files) : LinesAt(i) = LinesOf(args.files[i])

\* C10 amended: files are taken in order, one at a time; the lines of an
\* earlier file precede those of a later one; a file that has been processed
\* has exactly the lines it would have on its own; an exception ends the run
\* with no line for the file that raised it nor for any later file; the
\* program exits normally only after the last file
LinesInFileOrder ==
    /\ \A k \in 1..(Len(out) - 1) : out[k].file <= out[k + 1].file
    /\ \A k \in 1..Len(out) : out[k].file \in 1..fi
    /\ fi <= Len(args.files)
    /\ pc = "exit" => fi = Len(args.files)
    /\ pc \in {"for", "exit"} => \A i \in 1..fi : LinesAt(i) = LinesOf(args.files[i])
    /\ pc \notin {"for", "exit"} =>
          /\ \A i \in 1..(fi - 1) : LinesAt(i) = LinesOf(args.files[i])
          /\ fi >= 1
    /\ pc \in {"background", "foreground", "individual", "composite", "close"} =>
          /\ exc = "none"
          /\ IsPrefix(LinesAt(fi), LinesOf(args.files[fi]))
          /\ pc = "close" => LinesAt(fi) = LinesOf(args.files[fi])
    /\ pc = "raised" =>
          /\ exc # "none"
          /\ LinesAt(fi) = <<>>
          /\ LinesOf(args.files[fi]) = <<>>

\* the first file was reported, the second raised
SecondFileRaised ==
    /\ pc = "raised" /\ fi = 2 /\ LinesAt(1) # <<>> /\ LinesAt(2) = <<>>

====
